---- MODULE Spec2Model ----
(***************************************************************************)
(* Model of ore_algebra.analytic.function.DFiniteFunction: the            *)
(* constructor, the disk locator _disk, the two caches _polys and          *)
(* _inivecs, and approx; and of ore_algebra.analytic.                      *)
(* polynomial_approximation: the economization functions and doit.         *)
(*                                                                         *)
(* Numbers.  Every abscissa, radius and distance is an integer count of    *)
(* "fine units"; one fine unit is 2^-2, so the real number 1 is 4 and the  *)
(* disk of radius 2^k is written with expo = k + 2 and radius 2^expo fine  *)
(* units.  Distances to complex singular points are compared through       *)
(* their squares, which keeps every comparison exact.                      *)
(*                                                                         *)
(* Points.  A point is a record                                            *)
(*     [mid |-> centre, rad |-> radius of the ball, real |-> BOOLEAN,      *)
(*      bits |-> precision of the parent of a RealBall/RealNumber, or 0    *)
(*               for an exact number]                                      *)
(***************************************************************************)
EXTENDS Integers, Sequences, FiniteSets, TLC

\* ------------------------------------------------------------- bounds ----
\* abscissas of the points handed to the disk locator: -MaxCoord..MaxCoord
MaxCoord == 26
\* precisions requested from approx: 1..MaxReqPrec (0 stands for prec=None)
MaxReqPrec == 3
\* accuracies (certified bits) continuation may return: 1..MaxAcc
MaxAcc == 2
\* exponents of candidate disks: 0..MaxExpo
MaxExpo == 8
\* degrees of the polynomials handed to the economization functions
MaxDeg == 2
\* their coefficients: -MaxCoef..MaxCoef
MaxCoef == 2
\* the error bounds eps: multiples of 1/4 up to MaxEps/4
MaxEps == 9
\* the points j/MaxGrid of [-1, 1] where polynomials are compared
MaxGrid == 2

\* the order of the operators handed to _growth_parameters
MaxOrder == 2

\* --------------------------------------------------- program constants ----
\* RBF('inf'), the default max_rad; larger than every distance of the model
Infinity == 4096
\* the default precision of _guess_prec (53 in the code, scaled down)
DefaultPrec == 2
\* 1/(alpha*kappa^kappa), the cap of max_rad for an operator without finite
\* singular point: 2
GrowthCap == 8

VARIABLES
    sing,       \* singular points of dop: a set of <<re, im>>
    max_rad,    \* self.max_rad, after the cap of __init__
    max_prec,   \* self.max_prec
    seed,       \* the unique key of self.ini
    exactBalls, \* whether ball enclosures of distances and logarithms are exact
    made,       \* the constructor call that made the evaluator
    polys,      \* self._polys: center -> [pol, prec]
    inivecs,    \* self._inivecs: vertex -> sequence of accuracies
    call,       \* the last call of approx: its inputs and what it invoked
    maxReq,     \* center -> highest precision of a successful cached-path call
    keys,       \* abscissa -> centers used as _polys key for that point
    dk,         \* the running call of _disk: position, point, expo, center
    eco,        \* the last call of an economization function
    job,        \* the last call of doit
    fcall       \* the last call of another function of the two modules

vars == <<sing, max_rad, max_prec, seed, exactBalls, made, polys, inivecs,
          call, maxReq, keys, dk, eco, job, fcall>>

config == <<sing, max_rad, max_prec, seed, exactBalls, made>>

\* -------------------------------------------------------- arithmetic ----
Pow2(n) == 2 ^ n

Abs(x) == IF x < 0 THEN -x ELSE x

\* b^n, with b^0 = 1 for every b
RECURSIVE IPow(_, _)
IPow(b, n) == IF n = 0 THEN 1 ELSE b * IPow(b, n - 1)

Max2(a, b) == IF a >= b THEN a ELSE b

SetMin(S) == CHOOSE x \in S : \A y \in S : x <= y

\* the dicts of the evaluator are functions with a growing domain
EmptyDict == [k \in {} |-> 0]

Put(d, k, v) == [x \in DOMAIN d \cup {k} |-> IF x = k THEN v ELSE d[x]]

\* ------------------------------------------------ Point.dist_to_sing ----
\* squared distance of the abscissa x to the nearest singular point
SqDist(x) ==
    IF sing = {} THEN Infinity * Infinity
    ELSE SetMin({(x - s[1]) * (x - s[1]) + s[2] * s[2] : s \in sing})

\* safe_ge(dist_to_sing(x), v): the lower end of the enclosure of the
\* distance is at least v.  An enclosure that is not exact certifies only
\* the strict inequality.
CertDistGe(x, v) ==
    IF exactBalls THEN SqDist(x) >= v * v ELSE SqDist(x) > v * v

\* upper end of pt.dist_to_sing().min(self.max_rad) is at most v
BoundLe(pt, v) ==
    \/ max_rad <= v
    \/ /\ v >= pt.rad
       /\ (v - pt.rad) * (v - pt.rad) >= SqDist(pt.mid)

\* pt.dist_to_sing().min(self.max_rad) is exactly v
BoundIs(pt, v) ==
    /\ BoundLe(pt, v)
    /\ max_rad >= v
    /\ v >= pt.rad => (v - pt.rad) * (v - pt.rad) <= SqDist(pt.mid)

\* a placeholder for "no point yet"
NoPoint == [mid |-> 0, rad |-> 0, real |-> TRUE, bits |-> 0]

\* ------------------------------------------------------------- _disk ----
\* the result (None, None)
NoDisk == [center |-> 0, expo |-> -1]

\* smallest e with 2^e >= min(dist(pt, sing), max_rad)
CeilLog2Bound(pt) ==
    CHOOSE e \in 0..MaxExpo :
        /\ BoundLe(pt, Pow2(e))
        /\ e = 0 \/ ~BoundLe(pt, Pow2(e - 1))

\* a slip of start_expo: floor() in place of ceil()
start_expo_floor(pt) ==
    LET e == CeilLog2Bound(pt)
    IN  IF BoundIs(pt, Pow2(e)) THEN e ELSE e - 1

\* expo = ZZ(max_rad.log(2).upper().ceil()): the upper end of an inexact
\* enclosure of the logarithm of an exact power of two lies above it
start_expo(pt) ==
    LET e == CeilLog2Bound(pt)
    IN  IF ~exactBalls /\ BoundIs(pt, Pow2(e)) THEN e + 1 ELSE e

\* a slip of mantissa: an even floor is made odd downwards
mantissa_down(pt, expo) ==
    LET m == pt.mid \div Pow2(expo)
    IN  IF m % 2 = 0 THEN m - 1 ELSE m

\* a slip of mantissa: rounding to the nearest integer in place of floor()
mantissa_round(pt, expo) ==
    LET m == (2 * pt.mid + Pow2(expo)) \div (2 * Pow2(expo))
    IN  IF m % 2 = 0 THEN m + 1 ELSE m

\* a slip of mantissa: the floor is used as it is
mantissa_floor(pt, expo) == pt.mid \div Pow2(expo)

\* (approx_pt.squash() >> expo).floor(), made odd
mantissa(pt, expo) ==
    LET m == pt.mid \div Pow2(expo)
    IN  IF m % 2 = 0 THEN m + 1 ELSE m

\* center = mantissa << expo
candidate(pt, expo) == mantissa(pt, expo) * Pow2(expo)

\* a slip of accepted: safe_ge(dist, rad), the halving forgotten
accepted_whole(center, expo) == CertDistGe(center, Pow2(expo))

\* safe_ge(dist >> 1, rad) with rad = 2^expo
accepted(center, expo) == CertDistGe(center, 2 * Pow2(expo))

\* the while loop: the first exponent, counting down, whose candidate passes
RECURSIVE search(_, _)
search(pt, expo) ==
    IF accepted(candidate(pt, expo), expo) THEN expo
    ELSE search(pt, expo - 1)

\* a slip of contained: the radius of the ball of pt is forgotten
contained_mid(pt, center, expo) == Abs(pt.mid - center) <= Pow2(expo)

\* safe_le(dist_to_center, rad): the whole ball of pt lies in the disk
contained(pt, center, expo) == Abs(pt.mid - center) + pt.rad <= Pow2(expo)

\* the AssertionError of line 162, in place of a result
AssertionFailed == [center |-> 0, expo |-> -2]

\* a slip of give_up_assertion: the distance must be provably below rad
give_up_assertion_lt(pt, center, expo) == Abs(pt.mid - center) < Pow2(expo)

\* assert not safe_gt((approx_pt.squash() - center).squash(), rad)
give_up_assertion(pt, center, expo) == ~(pt.mid - center > Pow2(expo))

\* lines 161-163: the assertion, then return None, None
give_up(pt, center, expo) ==
    IF give_up_assertion(pt, center, expo) THEN NoDisk ELSE AssertionFailed

\* a variant of disk that splits a disk whose polynomial is already cached at
\* the default precision or more, so that the result depends on _polys
disk_split(pt) ==
    LET e == search(pt, start_expo(pt))
        c == candidate(pt, e)
        f == IF c \in DOMAIN polys /\ polys[c].prec >= DefaultPrec /\ e > 0
             THEN e - 1 ELSE e
        g == candidate(pt, f)
    IN  IF contained(pt, g, f) THEN [center |-> g, expo |-> f] ELSE NoDisk

\* a variant of disk without the containment test of lines 158-163
disk_unchecked(pt) ==
    LET e == search(pt, start_expo(pt))
    IN  [center |-> candidate(pt, e), expo |-> e]

disk(pt) ==
    LET e == search(pt, start_expo(pt))
        c == candidate(pt, e)
    IN  IF contained(pt, c, e) THEN [center |-> c, expo |-> e]
        ELSE give_up(pt, c, e)

\* The frame of a call of _disk: pc is "idle" before any call, "loop" at the
\* head of the while loop, "check" after the break, "done" after a return.
\* rejected holds the candidates <<center, expo>> that failed the test.
Frame(pc, pt, start, expo, center, rejected, result) ==
    [pc |-> pc, pt |-> pt, start |-> start, expo |-> expo, center |-> center,
     rejected |-> rejected, result |-> result]

Idle == Frame("idle", NoPoint, 0, 0, 0, {}, NoDisk)

\* ---------------------------------------------------- DFiniteFunction ----
\* RealPolApprox(pol, prec); pol is the polynomial on_interval computes for
\* the disk (center, 2^expo) and eps = 2^-prec
RealPolApprox(center, expo, prec) ==
    [pol |-> [center |-> center, expo |-> expo, eps |-> prec], prec |-> prec]

guess_prec(pt) == IF pt.bits > 0 THEN pt.bits ELSE DefaultPrec

\* a slip of bypass: prec > self.max_prec
bypass_gt(pt, prec) == prec > max_prec \/ ~pt.real

\* prec >= self.max_prec or not pt.is_real()
bypass(pt, prec) == prec >= max_prec \/ ~pt.real

\* start, ini = self.ini.items()[0]; return ini, [start, dest]
path_to(dest) == <<seed, dest>>

\* a slip of needs_compute: recompute whenever the precisions differ
needs_compute_ne(center, prec) ==
    center \notin DOMAIN polys \/ polys[center].prec /= prec

\* a slip of needs_compute: recompute also at the cached precision
needs_compute_le(center, prec) ==
    center \notin DOMAIN polys \/ polys[center].prec <= prec

\* approx is None or approx.prec < prec
needs_compute(center, prec) ==
    center \notin DOMAIN polys \/ polys[center].prec < prec

\* a slip of supersedes: a vector of equal accuracy overwrites
supersedes_le(d, vert, val) == vert \notin DOMAIN d \/ d[vert][1] <= val[1]

\* known is None or known[0].accuracy() < val[0][0].accuracy()
supersedes(d, vert, val) == vert \notin DOMAIN d \/ d[vert][1] < val[1]

\* the loop over pairs: self._inivecs[vert] = [c[0] for c in val]
RECURSIVE store_inivecs(_, _)
store_inivecs(d, pairs) ==
    IF pairs = <<>> THEN d
    ELSE LET vert == Head(pairs)[1]
             val == Head(pairs)[2]
         IN  store_inivecs(IF supersedes(d, vert, val) THEN Put(d, vert, val)
                           ELSE d,
                           Tail(pairs))

\* a variant of store_poly that also drops the entries of lower precision
store_poly_purge(d, center, expo, prec) ==
    [x \in {y \in DOMAIN d : d[y].prec >= prec} \cup {center} |->
        IF x = center THEN RealPolApprox(center, expo, prec) ELSE d[x]]

\* self._polys[center] = approx = RealPolApprox(pol=pol, prec=prec)
store_poly(d, center, expo, prec) ==
    Put(d, center, RealPolApprox(center, expo, prec))

\* the record kept of one call of approx: its inputs, the disk found, the
\* precision found in _polys (0 when the center has no entry), how the call
\* ended, what it invoked, the path handed to continuation, and the vertices
\* whose vector it replaced
Call(kind, pt, prec, d, outcome, cont, pol, replaced) ==
    [kind |-> kind, pt |-> pt, prec |-> prec,
     center |-> d.center, expo |-> d.expo,
     found |-> IF kind \in {"hit", "compute"} /\ d.center \in DOMAIN polys
               THEN polys[d.center].prec ELSE 0,
     outcome |-> outcome,
     disk |-> kind \notin {"none", "direct"},
     read |-> kind \in {"hit", "compute"},
     numsol |-> kind = "direct",
     path |-> IF kind = "direct" THEN path_to(pt.mid)
              ELSE IF cont THEN path_to(d.center) ELSE <<>>,
     cont |-> cont, pol |-> pol, replaced |-> replaced]

NoCall == Call("none", NoPoint, 0, NoDisk, "none", FALSE, FALSE, {})

\* the values analytic_continuation returns along path: the initial values
\* at the start, and a vector of the accuracies in vals at the end
continuation(path, vals) ==
    << <<path[1], <<MaxAcc + 1, MaxAcc + 1>> >>, <<path[2], vals>> >>

\* the vertices whose stored vector differs between two states of _inivecs
Replaced(old, new) == {v \in DOMAIN old : new[v] /= old[v]}

\* raise the highest precision served for a center
Served(center, prec) ==
    Put(maxReq, center,
        Max2(prec, IF center \in DOMAIN maxReq THEN maxReq[center] ELSE 0))

\* note the _polys key written for a request at abscissa x
Keyed(x, center) ==
    Put(keys, x, (IF x \in DOMAIN keys THEN keys[x] ELSE {}) \cup {center})

\* lines 187-189: ini, path = self._path_to(pt);
\* return self.dop.numerical_solution(ini, path, eps)
approx_direct(pt, prec) ==
    /\ \E ok \in BOOLEAN :
          call' = Call("direct", pt, prec, NoDisk,
                       IF ok THEN "ok" ELSE "ContinuationError", FALSE, FALSE,
                       {})
    /\ UNCHANGED <<polys, inivecs, maxReq, keys>>

\* a variant of approx_compute that stores the new entry of _polys before
\* on_interval has returned
approx_compute_early(pt, prec, d) ==
    \/ /\ call' = Call("compute", pt, prec, d, "ContinuationError",
                       TRUE, FALSE, {})
       /\ UNCHANGED <<polys, inivecs, maxReq, keys>>
    \/ \E vals \in (1..MaxAcc) \X (1..MaxAcc) :
          /\ inivecs' = store_inivecs(inivecs,
                            continuation(path_to(d.center), vals))
          /\ polys' = Put(polys, d.center, RealPolApprox(d.center, d.expo, prec))
          /\ \/ /\ call' = Call("compute", pt, prec, d, "PolApproxError",
                                TRUE, TRUE, Replaced(inivecs, inivecs'))
                /\ UNCHANGED <<maxReq, keys>>
             \/ /\ call' = Call("compute", pt, prec, d, "ok", TRUE, TRUE,
                                Replaced(inivecs, inivecs'))
                /\ maxReq' = Served(d.center, prec)
                /\ keys' = Keyed(pt.mid, d.center)

\* a variant of approx_compute that drops the entry of the center from
\* _polys when continuation fails
approx_compute_evict(pt, prec, d) ==
    \/ /\ call' = Call("compute", pt, prec, d, "ContinuationError",
                       TRUE, FALSE, {})
       /\ polys' = [x \in DOMAIN polys \ {d.center} |-> polys[x]]
       /\ UNCHANGED <<inivecs, maxReq, keys>>
    \/ \E vals \in (1..MaxAcc) \X (1..MaxAcc) :
          /\ inivecs' = store_inivecs(inivecs,
                            continuation(path_to(d.center), vals))
          /\ \/ /\ call' = Call("compute", pt, prec, d, "PolApproxError",
                                TRUE, TRUE, Replaced(inivecs, inivecs'))
                /\ UNCHANGED <<polys, maxReq, keys>>
             \/ /\ call' = Call("compute", pt, prec, d, "ok", TRUE, TRUE,
                                Replaced(inivecs, inivecs'))
                /\ polys' = store_poly(polys, d.center, d.expo, prec)
                /\ maxReq' = Served(d.center, prec)
                /\ keys' = Keyed(pt.mid, d.center)

\* lines 196-208: continuation to the center, merge of the vectors it
\* returns, polapprox.on_interval, store of the polynomial.  Either
\* collaborator may raise; vals are the accuracies of the vector found at
\* the center.
approx_compute(pt, prec, d) ==
    \/ /\ call' = Call("compute", pt, prec, d, "ContinuationError",
                       TRUE, FALSE, {})
       /\ UNCHANGED <<polys, inivecs, maxReq, keys>>
    \/ \E vals \in (1..MaxAcc) \X (1..MaxAcc) :
          /\ inivecs' = store_inivecs(inivecs,
                            continuation(path_to(d.center), vals))
          /\ \/ /\ call' = Call("compute", pt, prec, d, "PolApproxError",
                                TRUE, TRUE, Replaced(inivecs, inivecs'))
                /\ UNCHANGED <<polys, maxReq, keys>>
             \/ /\ call' = Call("compute", pt, prec, d, "ok", TRUE, TRUE,
                                Replaced(inivecs, inivecs'))
                /\ polys' = store_poly(polys, d.center, d.expo, prec)
                /\ maxReq' = Served(d.center, prec)
                /\ keys' = Keyed(pt.mid, d.center)

\* a variant of approx_cached that falls back on numerical_solution when no
\* disk is found
approx_cached_fallback(pt, prec, d) ==
    IF d = NoDisk
    THEN approx_direct(pt, prec)
    ELSE IF needs_compute(d.center, prec)
    THEN approx_compute(pt, prec, d)
    ELSE /\ call' = Call("hit", pt, prec, d, "ok", FALSE, FALSE, {})
         /\ maxReq' = Served(d.center, prec)
         /\ UNCHANGED <<polys, inivecs, keys>>

\* lines 190-209 once the disk d of pt is known
approx_cached(pt, prec, d) ==
    IF d \in {NoDisk, AssertionFailed}
    THEN /\ call' = Call("nodisk", pt, prec, d,
                         IF d = NoDisk THEN "NotImplementedError"
                         ELSE "AssertionError", FALSE, FALSE, {})
         /\ UNCHANGED <<polys, inivecs, maxReq, keys>>
    ELSE IF needs_compute(d.center, prec)
    THEN approx_compute(pt, prec, d)
    ELSE /\ call' = Call("hit", pt, prec, d, "ok", FALSE, FALSE, {})
         /\ maxReq' = Served(d.center, prec)
         /\ UNCHANGED <<polys, inivecs, keys>>

\* approx(pt, prec); precArg = 0 is prec=None
approx(pt, precArg) ==
    LET prec == IF precArg = 0 THEN guess_prec(pt) ELSE precArg
    IN  IF bypass(pt, prec)
        THEN approx_direct(pt, prec)
        ELSE approx_cached(pt, prec, disk(pt))

\* ------------------------------------------- DFiniteFunction.__init__ ----
\* The argument ini: a vector of initial values (dict = FALSE), or a dict
\* whose keys are the points where initial values are given.
Ini(dict, points) == [dict |-> dict, keys |-> points]

\* the record kept of a call of the constructor
Made(ini, outcome) == [ini |-> ini, outcome |-> outcome]

\* no evaluator has been constructed
NotMade == Made(Ini(FALSE, {}), "none")

\* the value of seed while no evaluator exists
NoSeed == -Infinity

\* if not isinstance(ini, dict): ini = {0: ini}
as_dict(ini) == IF ini.dict THEN ini ELSE Ini(TRUE, {0})

\* a slip of well_seeded: only several seeds are refused
well_seeded_many(ini) == Cardinality(as_dict(ini).keys) <= 1

\* not (len(ini) != 1)
well_seeded(ini) == Cardinality(as_dict(ini).keys) = 1

\* self.max_rad: the cap 1/(alpha*kappa^kappa) applies when the leading
\* coefficient of dop is constant, that is without finite singular point
capped(r) == IF sing = {} /\ GrowthCap < r THEN GrowthCap ELSE r

\* __init__(self, dop, ini, max_prec, max_rad); sing, max_prec and max_rad
\* hold the arguments dop, max_prec and max_rad of the call.  seed is the
\* key of self.ini (0 should a dict without key be let through).
new(ini) ==
    IF well_seeded(ini)
    THEN /\ made' = Made(ini, "ok")
         /\ seed' = IF as_dict(ini).keys = {} THEN 0
                    ELSE CHOOSE k \in as_dict(ini).keys : TRUE
         /\ max_rad' = capped(max_rad)
         /\ inivecs' = EmptyDict
         /\ polys' = EmptyDict
    ELSE /\ made' = Made(ini, "NotImplementedError")
         /\ UNCHANGED <<seed, max_rad, inivecs, polys>>

\* ------------------------------------- polynomial_approximation: rings ----
\* A polynomial is the sequence of its coefficients, constant term first,
\* without trailing zeros; the zero polynomial is <<>>.  The coefficients
\* of pol, the bounds delta_bound and eps are counts of 1/Scale, so that the
\* quotients by the leading coefficients of T[k] are exact.
Scale == Pow2(2 * MaxDeg)

RECURSIVE Normalize(_)
Normalize(p) ==
    IF p = <<>> THEN <<>>
    ELSE IF p[Len(p)] /= 0 THEN p
    ELSE Normalize(SubSeq(p, 1, Len(p) - 1))

\* pol[i]
Coef(p, i) == IF 0 <= i /\ i < Len(p) THEN p[i + 1] ELSE 0

\* pol.degree(), -1 for the zero polynomial
Degree(p) == Len(p) - 1

\* pol.leading_coefficient()
LeadingCoefficient(p) == p[Len(p)]

\* pol[:k]
PolTrunc(p, k) == Normalize(SubSeq(p, 1, IF k < Len(p) THEN k ELSE Len(p)))

\* p - q
PolSub(p, q) ==
    Normalize([i \in 1..Max2(Len(p), Len(q)) |->
                   Coef(p, i - 1) - Coef(q, i - 1)])

\* c*p
PolScale(c, p) == Normalize([i \in 1..Len(p) |-> c * p[i]])

\* x*p
PolShift(p) == IF p = <<>> THEN <<>> ELSE <<0>> \o p

\* the value a ball polynomial returns: the midpoints of the coefficients,
\* and the radius rad of the constant term, which is a ball of field;
\* dropped is the set of the degrees whose test passed and c[k + 1] the
\* quotient computed at degree k; exact tells that every quotient was exact
Economized(pol, rad, field, dropped, c, exact) ==
    [raised |-> "none", pol |-> pol, rad |-> rad, field |-> field,
     dropped |-> dropped, c |-> c, exact |-> exact]

\* an exception in place of a value
Raised(exc) ==
    [raised |-> exc, pol |-> <<>>, rad |-> 0, field |-> "real",
     dropped |-> {}, c |-> <<>>, exact |-> TRUE]

\* ------------------------------------------------ taylor_economization ----
\* a slip of taylor_bound: the bound of the last dropped term only
taylor_bound_last(delta_bound, a) == Abs(a)

\* tmp_bound = delta_bound + abs(pol[i])
taylor_bound(delta_bound, a) == delta_bound + Abs(a)

\* the for loop, from degree i down to 0
RECURSIVE taylor_loop(_, _, _, _, _, _)
taylor_loop(pol, eps, i, coef, delta_bound, dropped) ==
    IF i < 0 THEN [coef |-> coef, delta_bound |-> delta_bound,
                   dropped |-> dropped]
    ELSE LET tmp_bound == taylor_bound(delta_bound, Coef(pol, i))
         IN  IF tmp_bound < eps
             THEN taylor_loop(pol, eps, i - 1, [coef EXCEPT ![i + 1] = 0],
                              tmp_bound, dropped \cup {i})
             ELSE taylor_loop(pol, eps, i - 1, coef, delta_bound, dropped)

\* coef[0] = ... raises IndexError when list(pol) is empty; the constant
\* term is converted to a complex ball before the error is added
taylor_economization(pol, eps) ==
    IF pol = <<>> THEN Raised("IndexError")
    ELSE LET r == taylor_loop(pol, eps, Degree(pol), pol, 0, {})
         IN  Economized(Normalize(r.coef), r.delta_bound, "complex",
                        r.dropped, pol, TRUE)

\* ----------------------------------------------- chebyshev_polynomials ----
\* for k in xrange(1, n - 1): cheb_T[k+1] = 2*x*cheb_T[k] - cheb_T[k-1];
\* cheb_T[k] of the code is T[k + 1] here
RECURSIVE cheb_fill(_, _, _)
cheb_fill(T, k, n) ==
    IF k >= n - 1 THEN T
    ELSE cheb_fill(Append(T, PolSub(PolScale(2, PolShift(T[k + 1])), T[k])),
                   k + 1, n)

\* a slip of chebyshev_polynomials: cheb_T[1] = 2*x, the polynomials of the
\* second kind
chebyshev_polynomials_second(n) ==
    IF n = 0 THEN <<>>
    ELSE IF n = 1 THEN << <<1>> >>
    ELSE cheb_fill(<< <<1>>, <<0, 2>> >>, 1, n)

chebyshev_polynomials(n) ==
    IF n = 0 THEN <<>>
    ELSE IF n = 1 THEN << <<1>> >>
    ELSE cheb_fill(<< <<1>>, <<0, 1>> >>, 1, n)

\* ----------------------------------------------- general_economization ----
\* the for loop, from degree k down to 0
RECURSIVE general_loop(_, _, _, _, _, _, _, _)
general_loop(ecopol, eps, k, newpol, delta_bound, dropped, cs, exact) ==
    IF k < 0 THEN [newpol |-> newpol, delta_bound |-> delta_bound,
                   dropped |-> dropped, c |-> cs, exact |-> exact]
    ELSE LET lc == LeadingCoefficient(ecopol[k + 1])
             c == Coef(newpol, k) \div lc
             ex == exact /\ Coef(newpol, k) % lc = 0
             tmp_bound == delta_bound + Abs(c)
         IN  IF tmp_bound < eps
             THEN general_loop(ecopol, eps, k - 1,
                      PolSub(PolTrunc(newpol, k),
                             PolScale(c, PolTrunc(ecopol[k + 1], k))),
                      tmp_bound, dropped \cup {k},
                      [cs EXCEPT ![k + 1] = c], ex)
             ELSE general_loop(ecopol, eps, k - 1, newpol, delta_bound,
                      dropped, [cs EXCEPT ![k + 1] = c], ex)

\* general_economization(economization_polynomials, pol, eps), where
\* ecopol is economization_polynomials(pol.parent(), pol.degree() + 1);
\* newpol[0].add_error(delta_bound) + newpol[1:] keeps the midpoints
general_economization(ecopol, pol, eps) ==
    LET r == general_loop(ecopol, eps, Degree(pol), pol, 0, {},
                          [i \in 1..Len(pol) |-> 0], TRUE)
    IN  Economized(r.newpol, r.delta_bound, "real", r.dropped, r.c, r.exact)

\* an economization_polynomials argument: the monomials E[k] = x^k
monomials(n) == [k \in 1..n |-> [i \in 1..k |-> IF i = k THEN 1 ELSE 0]]

chebyshev_economization(pol, eps) ==
    general_economization(chebyshev_polynomials(Degree(pol) + 1), pol, eps)

\* a call of an economization function: its arguments, the function called
\* and what it returned
EcoCall(pol, eps, fn, out) == [pol |-> pol, eps |-> eps, fn |-> fn, out |-> out]

NoEco == EcoCall(<<>>, 0, "none", Raised("none"))

\* ---------------------------------------------------------------- doit ----
\* pol(rad*x)
Dilate(p, rad) == Normalize([i \in 1..Len(p) |-> p[i] * IPow(rad, i - 1)])

\* pol(x/rad)
Contract(p, rad) == Normalize([i \in 1..Len(p) |-> p[i] \div IPow(rad, i - 1)])

\* economization(pol, eps) for the function doit was given
economize(economization, pol, eps) ==
    IF economization = "taylor_economization"
    THEN taylor_economization(pol, eps)
    ELSE chebyshev_economization(pol, eps)

\* postprocess(pol) = economization(pol(rad*x), eps1)(x/rad)
postprocess(economization, pol, rad, eps1) ==
    LET r == economize(economization, Dilate(pol, rad), eps1)
    IN  [r EXCEPT !.pol = Contract(r.pol, rad)]

\* An element of a path: a point, or a pair [left, right]; a point has
\* left = right.
Plain(x) == [pair |-> FALSE, left |-> x, right |-> x]

Pair(left, right) == [pair |-> TRUE, left |-> left, right |-> right]

\* A call of doit: its arguments path, rad, eps and economization, the
\* series that series_sum_ordinary returns when it is reached, the tolerance
\* passed to each collaborator that was called, and the outcome.
Job(path, series, rad, eps, economization, passed, outcome, out) ==
    [path |-> path, series |-> series, rad |-> rad, eps |-> eps,
     economization |-> economization, passed |-> passed,
     outcome |-> outcome, out |-> out]

NoJob == Job(<<>>, <<>>, 1, 0, "none", EmptyDict, "none", Raised("none"))

\* a call of a function that keeps no state: its name, its arguments and
\* what it returned or raised
Fcall(fn, args, out) == [fn |-> fn, args |-> args, out |-> out]

NoFcall == Fcall("none", <<>>, <<>>)

\* ancont.Context(dop, path, eps) accepts a path whose elements are points
valid_path(path) == \A i \in 1..Len(path) : ~path[i].pair

\* the tolerance doit passes to each collaborator: ancont.Context(dop, path,
\* eps/2), accuracy.AbsoluteError(eps1), economization(pol(rad*x), eps1),
\* with eps1 = bounds.IR(eps)/2
tolerance(eps) ==
    [continuation |-> eps \div 2,
     summation |-> eps \div 2,
     economization |-> eps \div 2]

\* the tolerances passed to the collaborators in names
Passed(eps, names) == [n \in names |-> tolerance(eps)[n]]

\* doit(dop, ini, path, rad, eps, derivatives, economization): Context
\* rejects a path with an element that is not a point; continuation or
\* summation may raise; otherwise every polynomial is post-processed
doit(j) ==
    IF ~valid_path(j.path)
    THEN job' = [j EXCEPT !.passed = Passed(j.eps, {"continuation"}),
                          !.outcome = "TypeError: unexpected value for point"]
    ELSE \/ job' = [j EXCEPT !.passed = Passed(j.eps, {"continuation"}),
                             !.outcome = "ContinuationError"]
         \/ job' = [j EXCEPT !.passed = Passed(j.eps, {"continuation",
                                            "summation"}),
                             !.outcome = "SummationError"]
         \/ LET r == postprocess(j.economization, j.series, j.rad,
                                 tolerance(j.eps).economization)
            IN  job' = [j EXCEPT !.passed = Passed(j.eps, {"continuation",
                                                "summation", "economization"}),
                                 !.outcome = IF r.raised = "none" THEN "ok"
                                             ELSE r.raised,
                                 !.out = r]

\* ---------------------------------------------------------- on_interval ----
\* rad=None
NoRad == -Infinity

\* a slip of infer_rad: the length of the interval
infer_rad_whole(last) == last.right - last.left

\* rad = (right - left)/2
infer_rad(last) == (last.right - last.left) \div 2

\* mid = (left + right)/2
infer_mid(last) == (last.left + last.right) \div 2

\* mypath = path[:-1] + [mid]
infer_path(path) ==
    SubSeq(path, 1, Len(path) - 1) \o <<Plain(infer_mid(path[Len(path)]))>>

\* the record of a call of on_interval: the arguments, the caller's list
\* after the call, and the outcome
OnInterval(path, eps, rad, after, outcome) ==
    Fcall("on_interval", [path |-> path, eps |-> eps, rad |-> rad],
          [path |-> after, outcome |-> outcome])

\* on_interval(dop, ini, path, eps, rad); series is what summation returns
\* if doit reaches it
on_interval(path, eps, rad, series) ==
    IF rad = NoRad /\ path = <<>>
    THEN /\ fcall' = OnInterval(path, eps, rad, path, "IndexError")
         /\ UNCHANGED job
    ELSE IF rad = NoRad /\ ~path[Len(path)].pair
    THEN /\ fcall' = OnInterval(path, eps, rad, path,
                                "TypeError: missing radius")
         /\ UNCHANGED job
    ELSE /\ doit(Job(IF rad = NoRad THEN infer_path(path) ELSE path, series,
                     IF rad = NoRad THEN infer_rad(path[Len(path)]) ELSE rad,
                     eps, "chebyshev_economization", EmptyDict, "called",
                     Raised("none")))
         /\ fcall' = OnInterval(path, eps, rad, path, job'.outcome)

\* ------------------------------------------------- the evaluator spec ----
\* the points asked of the evaluator: 1 and 10 as exact numbers, 10.5 as
\* a ball of a 1-bit field, and a complex number
EvalPoints ==
    { [mid |-> 4, rad |-> 0, real |-> TRUE, bits |-> 0],
      [mid |-> 40, rad |-> 0, real |-> TRUE, bits |-> 0],
      [mid |-> 42, rad |-> 1, real |-> TRUE, bits |-> 1],
      [mid |-> 4, rad |-> 0, real |-> FALSE, bits |-> 0] }

\* DFiniteFunction((x^2 + 1)*Dx^2 + 2*x*Dx, [0, 1], max_prec=3)
Init ==
    /\ sing = {<<0, 4>>, <<0, -4>>}
    /\ max_rad = Infinity
    /\ max_prec = 3
    /\ seed = 0
    /\ exactBalls = TRUE
    /\ made = Made(Ini(FALSE, {}), "ok")
    /\ polys = EmptyDict
    /\ inivecs = EmptyDict
    /\ call = NoCall
    /\ maxReq = EmptyDict
    /\ keys = EmptyDict
    /\ dk = Idle
    /\ eco = NoEco
    /\ job = NoJob
    /\ fcall = NoFcall

Approx ==
    /\ \E pt \in EvalPoints, precArg \in 0..MaxReqPrec : approx(pt, precArg)
    /\ UNCHANGED <<config, dk, eco, job, fcall>>

Next == Approx

Spec == Init /\ [][Next]_vars

\* -------------------------------------------- _disk, statement by statement
\* an ordinary real point: its ball stays at distance >= 1 of the singular
\* points
Ordinary(pt) ==
    pt.real /\ SqDist(pt.mid) >= (4 + pt.rad) * (4 + pt.rad)

DiskPoints ==
    {[mid |-> x, rad |-> r, real |-> TRUE, bits |-> r] :
        x \in (-MaxCoord)..MaxCoord, r \in {0, 1}}

\* lines 134-140: the call, up to the head of the loop
disk_enter(pt) ==
    /\ dk.pc \in {"idle", "done"}
    /\ Ordinary(pt)
    /\ dk' = Frame("loop", pt, start_expo(pt), start_expo(pt), 0, {}, NoDisk)

\* a slip of disk_turn: expo -= 1 forgotten
disk_turn_stay ==
    /\ dk.pc = "loop"
    /\ LET c == candidate(dk.pt, dk.expo)
       IN  IF accepted(c, dk.expo)
           THEN dk' = [dk EXCEPT !.pc = "check", !.center = c]
           ELSE dk' = [dk EXCEPT !.rejected = @ \cup {<<c, dk.expo>>}]

\* lines 142-154: one turn of the loop
disk_turn ==
    /\ dk.pc = "loop"
    /\ LET c == candidate(dk.pt, dk.expo)
       IN  IF accepted(c, dk.expo)
           THEN dk' = [dk EXCEPT !.pc = "check", !.center = c]
           ELSE dk' = [dk EXCEPT !.expo = dk.expo - 1,
                                 !.rejected = @ \cup {<<c, dk.expo>>}]

\* lines 155-167: the containment test and the return
disk_return ==
    /\ dk.pc = "check"
    /\ dk' = [dk EXCEPT !.pc = "done",
                        !.result =
                            IF contained(dk.pt, dk.center, dk.expo)
                            THEN [center |-> dk.center, expo |-> dk.expo]
                            ELSE give_up(dk.pt, dk.center, dk.expo)]

\* the operators of the model: with or without finite singular points, with
\* complex or real ones
Operators ==
    { {<<0, 4>>, <<0, -4>>}, {<<0, 0>>}, {<<-8, 0>>, <<26, 0>>}, {} }

InitDisk ==
    /\ sing \in Operators
    /\ max_rad \in {3, 8, Infinity}
    /\ sing = {} => max_rad /= Infinity
    /\ max_prec = 3
    /\ seed = 0
    /\ exactBalls \in BOOLEAN
    /\ made = Made(Ini(FALSE, {}), "ok")
    /\ polys = EmptyDict
    /\ inivecs = EmptyDict
    /\ call = NoCall
    /\ maxReq = EmptyDict
    /\ keys = EmptyDict
    /\ dk = Idle
    /\ eco = NoEco
    /\ job = NoJob
    /\ fcall = NoFcall

DiskEnter ==
    /\ \E pt \in DiskPoints : disk_enter(pt)
    /\ UNCHANGED <<config, polys, inivecs, call, maxReq, keys, eco, job,
                   fcall>>

DiskTurn ==
    /\ disk_turn
    /\ UNCHANGED <<config, polys, inivecs, call, maxReq, keys, eco, job,
                   fcall>>

DiskReturn ==
    /\ disk_return
    /\ UNCHANGED <<config, polys, inivecs, call, maxReq, keys, eco, job,
                   fcall>>

NextDisk == DiskEnter \/ DiskTurn \/ DiskReturn

SpecDisk == InitDisk /\ [][NextDisk]_vars

\* a call of _disk that has begun runs on: the loop takes its next turn and
\* the statements after the loop are executed
SpecDiskLive == SpecDisk /\ WF_vars(DiskTurn) /\ WF_vars(DiskReturn)

\* the loop of the statement-wise model and the operator disk agree
DiskAgrees == dk.pc = "done" => dk.result = disk(dk.pt)

\* ------------------------------------------- the economization spec ----
\* the polynomials handed to the economization functions: degree at most
\* MaxDeg, coefficients -MaxCoef..MaxCoef
PolInputs ==
    {p \in UNION {[1..n -> {a * Scale : a \in (-MaxCoef)..MaxCoef}] :
                      n \in 0..(MaxDeg + 1)} :
        p = <<>> \/ p[Len(p)] /= 0}

\* the bounds eps: the multiples of 1/4 from -1/4 to MaxEps/4
EpsInputs == {k * (Scale \div 4) : k \in (-1)..MaxEps}

InitEco ==
    /\ sing = {<<0, 4>>, <<0, -4>>}
    /\ max_rad = Infinity
    /\ max_prec = 3
    /\ seed = 0
    /\ exactBalls = TRUE
    /\ made = Made(Ini(FALSE, {}), "ok")
    /\ polys = EmptyDict
    /\ inivecs = EmptyDict
    /\ call = NoCall
    /\ maxReq = EmptyDict
    /\ keys = EmptyDict
    /\ dk = Idle
    /\ eco \in {EcoCall(p, e, "none", Raised("none")) :
                   p \in PolInputs, e \in EpsInputs}
    /\ job = NoJob
    /\ fcall = NoFcall

TaylorEconomization ==
    /\ eco' = [eco EXCEPT !.fn = "taylor_economization",
                          !.out = taylor_economization(eco.pol, eco.eps)]
    /\ UNCHANGED <<config, polys, inivecs, call, maxReq, keys, dk, job,
                   fcall>>

ChebyshevEconomization ==
    /\ eco' = [eco EXCEPT !.fn = "chebyshev_economization",
                          !.out = chebyshev_economization(eco.pol, eco.eps)]
    /\ UNCHANGED <<config, polys, inivecs, call, maxReq, keys, dk, job,
                   fcall>>

\* general_economization called with the monomials
GeneralEconomization ==
    /\ eco' = [eco EXCEPT !.fn = "general_economization",
                          !.out = general_economization(
                                      monomials(Degree(eco.pol) + 1),
                                      eco.pol, eco.eps)]
    /\ UNCHANGED <<config, polys, inivecs, call, maxReq, keys, dk, job,
                   fcall>>

NextEco ==
    TaylorEconomization \/ ChebyshevEconomization \/ GeneralEconomization

SpecEco == InitEco /\ [][NextEco]_vars

\* every quotient by a leading coefficient is exact in the model
EcoExact == eco.out.exact

\* ----------------------------------------------------- the doit spec ----
\* the series summation may return: the polynomials of degree at most 1
SeriesInputs == {p \in PolInputs : Degree(p) <= 1}

\* the tolerances eps: the positive multiples of 1/2 up to MaxEps/2
DoitEps == {2 * e : e \in {x \in EpsInputs : x > 0}}

InitDoit ==
    /\ sing = {<<0, 4>>, <<0, -4>>}
    /\ max_rad = Infinity
    /\ max_prec = 3
    /\ seed = 0
    /\ exactBalls = TRUE
    /\ made = Made(Ini(FALSE, {}), "ok")
    /\ polys = EmptyDict
    /\ inivecs = EmptyDict
    /\ call = NoCall
    /\ maxReq = EmptyDict
    /\ keys = EmptyDict
    /\ dk = Idle
    /\ eco = NoEco
    /\ job \in {Job(path, p, rad, eps, f, EmptyDict, "called", Raised("none")) :
                   path \in {<<Plain(0)>>, <<Plain(0), Pair(0, 2)>>},
                   p \in SeriesInputs, rad \in {1, 2}, eps \in DoitEps,
                   f \in {"taylor_economization", "chebyshev_economization"}}
    /\ fcall = NoFcall

Doit ==
    /\ job.outcome = "called"
    /\ doit(job)
    /\ UNCHANGED <<config, polys, inivecs, call, maxReq, keys, dk, eco,
                   fcall>>

NextDoit == Doit

SpecDoit == InitDoit /\ [][NextDoit]_vars

\* ----------------------------------------------- the constructor spec ----
\* the points where initial values may be given: 0 and 2
SeedPoints == {0, 8}

IniInputs == {Ini(FALSE, {})} \cup {Ini(TRUE, K) : K \in SUBSET SeedPoints}

\* the points asked of the evaluator in this spec: 1, real or complex, and
\* the ball 2 +/- 1/4, which lies across the boundary of its disk
NearPoints ==
    {pt \in EvalPoints : pt.mid = 4}
        \cup {[mid |-> 8, rad |-> 1, real |-> TRUE, bits |-> 1]}

InitNew ==
    /\ sing = {<<0, 4>>, <<0, -4>>}
    /\ max_rad = Infinity
    /\ max_prec = 3
    /\ seed = NoSeed
    /\ exactBalls = TRUE
    /\ made = NotMade
    /\ polys = EmptyDict
    /\ inivecs = EmptyDict
    /\ call = NoCall
    /\ maxReq = EmptyDict
    /\ keys = EmptyDict
    /\ dk = Idle
    /\ eco = NoEco
    /\ job = NoJob
    /\ fcall = NoFcall

\* DFiniteFunction(dop, ini, max_prec, max_rad), while no evaluator exists
New ==
    /\ made.outcome /= "ok"
    /\ \E ini \in IniInputs : new(ini)
    /\ UNCHANGED <<sing, max_prec, exactBalls, call, maxReq, keys, dk, eco,
                   job, fcall>>

\* approx on the evaluator that was constructed
ApproxMade ==
    /\ made.outcome = "ok"
    /\ \E pt \in NearPoints, precArg \in 0..MaxReqPrec : approx(pt, precArg)
    /\ UNCHANGED <<config, dk, eco, job, fcall>>

NextNew == New \/ ApproxMade

SpecNew == InitNew /\ [][NextNew]_vars

\* ------------------------------------------------- the values of approx ----
\* The evaluator of the solution f(x) = (x - 1)/4 of Dx^2 - (x - 1)*Dx + 1
\* with ini = [-1/4, 1/4] at 0: the coefficients of f, in counts of 1/Scale.
Solution == <<-(Scale \div 4), Scale \div 4>>

\* the series of f at a center that is an integer (center counts quarters):
\* what series_sum_ordinary sums, all of it since f is a polynomial
series_at(center) ==
    Normalize(<<Solution[1] + Solution[2] * (center \div 4), Solution[2]>>)

\* 4^MaxDeg times the value of p at the point t/4
RECURSIVE FineFrom(_, _, _)
FineFrom(p, t, i) ==
    IF i > Degree(p) THEN 0
    ELSE Coef(p, i) * IPow(t, i) * IPow(4, MaxDeg - i) + FineFrom(p, t, i + 1)

\* approx.pol(reduced_pt) at the midpoints of the coefficients
pol_at(p, t) == FineFrom(p, t, 0)

\* eps = RBF.one() >> prec
eps_of(prec) == Scale \div Pow2(prec)

\* the polynomial on_interval returns for the disk (center, 2^expo) and
\* eps = 2^-prec when nothing raises; the radius is 2^expo quarters
interval_pol(desc) ==
    postprocess("chebyshev_economization", series_at(desc.center),
                Pow2(desc.expo) \div 4, tolerance(eps_of(desc.eps)).economization)

\* the ball a call of approx returns, as the interval [lo, hi], next to the
\* value of f at the point; all three count 1/(Scale*4^MaxDeg)
Value(kind, lo, hi, truth) ==
    [kind |-> kind, lo |-> lo, hi |-> hi, truth |-> truth]

\* the value returned by the call c of approx, stored being _polys after the
\* call; reduced_pt = Balls(pt.value) - Balls(center) is a ball of radius w
\* quarters around pt - center.  numerical_solution returns the value of f
\* within eps.
approx_value(c, stored, w) ==
    LET truth == pol_at(Solution, c.pt.mid)
        unit == IPow(4, MaxDeg)
    IN  IF c.outcome /= "ok" THEN Value("raised", 0, 0, truth)
        ELSE IF c.kind = "direct"
        THEN Value("direct", truth - eps_of(c.prec) * unit,
                   truth + eps_of(c.prec) * unit, truth)
        ELSE LET p == interval_pol(stored[c.center].pol)
                 t == c.pt.mid - c.center
                 vals == {pol_at(p.pol, t + d) : d \in (-w)..w}
                 lo == CHOOSE v \in vals : \A u \in vals : v <= u
                 hi == CHOOSE v \in vals : \A u \in vals : u <= v
             IN  Value(c.kind, lo - p.rad * unit, hi + p.rad * unit, truth)

\* ---------------------------------------------------- _growth_parameters ----
\* An operator is the sequence of its coefficients, the coefficient of Dx^i
\* at index i + 1; a coefficient is the sequence of its integer coefficients,
\* that of x^j at index j + 1, without trailing zeros.

\* the greatest common divisor of two naturals
RECURSIVE Gcd(_, _)
Gcd(a, b) == IF b = 0 THEN a ELSE Gcd(b, a % b)

\* the rational num/den (den > 0) in lowest terms, as QQ keeps it
Frac(num, den) ==
    LET g == Gcd(Abs(num), den)
    IN  IF num = 0 THEN <<0, 1>> ELSE <<num \div g, den \div g>>

\* p <= q for rationals with positive denominators
FracLe(p, q) == p[1] * q[2] <= q[1] * p[2]

\* the widest coefficient of dop
width(dop) ==
    CHOOSE w \in 0..(MaxDeg + 2) :
        /\ \A i \in 1..Len(dop) : Len(dop[i]) <= w
        /\ \E i \in 1..Len(dop) : Len(dop[i]) = w

\* points = [(ZZ(j-i), ZZ(i), c) for (i, pol) in enumerate(dop)
\*           for (j, c) in enumerate(pol) if not c.is_zero()]
points(dop) ==
    LET w == width(dop)
        all == [n \in 1..(Len(dop) * w) |->
                   LET i == (n - 1) \div w
                       j == (n - 1) % w
                   IN  [h |-> j - i, i |-> i, j |-> j,
                        c |-> IF j < Len(dop[i + 1]) THEN dop[i + 1][j + 1]
                              ELSE 0]]
        keep(p) == p.c /= 0
    IN  SelectSeq(all, keep)

\* the value of j that the list comprehension leaves behind: the last index
\* of the last coefficient enumerated, the leading coefficient of dop
leaked_j(dop) == Len(dop[Len(dop)]) - 1

\* key=lambda (h, i, c): (h, -j), compared as tuples
key_le(a, b) == a[1] < b[1] \/ (a[1] = b[1] /\ a[2] <= b[2])

\* h0, i0, _ = min(points, key=...): the first point whose key is the least
base_point(dop) ==
    LET pts == points(dop)
        key(p) == <<p.h, -leaked_j(dop)>>
        n == CHOOSE n \in 1..Len(pts) :
                 /\ \A m \in 1..Len(pts) : key_le(key(pts[n]), key(pts[m]))
                 /\ \A m \in 1..(n - 1) : ~key_le(key(pts[m]), key(pts[n]))
    IN  pts[n]

\* the points with h > h0
beyond(dop) ==
    LET pts == points(dop)
    IN  {pts[n] : n \in {m \in 1..Len(pts) : pts[m].h > base_point(dop).h}}

\* (i-i0)/(h-h0)
rate(p, b) == Frac(p.i - b.i, p.h - b.h)

\* a slip of slope: the least rate
slope_min(dop) ==
    LET b == base_point(dop)
        rates == {rate(p, b) : p \in beyond(dop)}
    IN  CHOOSE s \in rates : \A t \in rates : FracLe(s, t)

\* slope = max((i-i0)/(h-h0) for (h, i, c) in points if h > h0)
slope(dop) ==
    LET b == base_point(dop)
        rates == {rate(p, b) : p \in beyond(dop)}
    IN  CHOOSE s \in rates : \A t \in rates : FracLe(t, s)

\* eqn = Pol({i: c for (h, i, c) in points if i == i0 + slope*(h-h0)}): a
\* later point replaces an earlier one with the same i
edge_equation(dop) ==
    LET pts == points(dop)
        b == base_point(dop)
        s == slope(dop)
        on(p) == (p.i - b.i) * s[2] = s[1] * (p.h - b.h)
        at(i) == {n \in 1..Len(pts) : pts[n].i = i /\ on(pts[n])}
        last(i) == CHOOSE n \in at(i) : \A m \in at(i) : m <= n
    IN  [i \in {p.i : p \in {pts[n] : n \in {m \in 1..Len(pts) : on(pts[m])}}}
            |-> pts[last(i)].c]

\* the outcome of a call of _growth_parameters; expo_growth is not kept
Growth(raised, kappa, base, eqn) ==
    [raised |-> raised, kappa |-> kappa, base |-> base, eqn |-> eqn]

\* _growth_parameters(dop): max() of no point raises ValueError
growth_parameters(dop) ==
    IF beyond(dop) = {}
    THEN Growth("ValueError", <<0, 1>>, base_point(dop), EmptyDict)
    ELSE Growth("none", <<-slope(dop)[1], slope(dop)[2]>>, base_point(dop),
                edge_equation(dop))

\* ---------------------------------------------- the on_interval spec ----
\* the paths handed to on_interval: empty, ending at a point, or ending at
\* a pair [left, right] whose midpoint and half-length are integers
PathInputs ==
    {<<>>, <<Plain(0)>>, <<Plain(0), Plain(2)>>, <<Plain(0), Pair(0, 2)>>,
     <<Plain(0), Pair(0, 4)>>, <<Plain(1), Pair(2, 4)>>, <<Pair(1, 3)>>}

InitInterval ==
    /\ sing = {<<0, 4>>, <<0, -4>>}
    /\ max_rad = Infinity
    /\ max_prec = 3
    /\ seed = 0
    /\ exactBalls = TRUE
    /\ made = Made(Ini(FALSE, {}), "ok")
    /\ polys = EmptyDict
    /\ inivecs = EmptyDict
    /\ call = NoCall
    /\ maxReq = EmptyDict
    /\ keys = EmptyDict
    /\ dk = Idle
    /\ eco = NoEco
    /\ job = NoJob
    /\ fcall = NoFcall

OnIntervalCall ==
    /\ fcall = NoFcall
    /\ \E path \in PathInputs, rad \in {NoRad, 1, 2}, eps \in DoitEps,
          series \in SeriesInputs : on_interval(path, eps, rad, series)
    /\ UNCHANGED <<config, polys, inivecs, call, maxReq, keys, dk, eco>>

\* chebyshev_polynomials(ring, n) for the lengths general_economization
\* asks, pol.degree() + 1
ChebyshevPolynomials ==
    /\ fcall = NoFcall
    /\ \E n \in 0..(MaxDeg + 1) :
           fcall' = Fcall("chebyshev_polynomials", [n |-> n],
                          chebyshev_polynomials(n))
    /\ UNCHANGED <<config, polys, inivecs, call, maxReq, keys, dk, eco, job>>

NextInterval == OnIntervalCall \/ ChebyshevPolynomials

SpecInterval == InitInterval /\ [][NextInterval]_vars

\* --------------------------------------- the _growth_parameters spec ----
\* the coefficients of the operators: of degree at most 1, with the
\* coefficients of the module's examples
GrowthCoefficients ==
    {p \in UNION {[1..n -> {-1, 0, 2, 8}] : n \in 0..2} :
        p = <<>> \/ p[Len(p)] /= 0}

\* the operators __init__ hands to _growth_parameters: the leading
\* coefficient is a nonzero constant
GrowthOperators ==
    UNION {{low \o <<<<c>>>> : low \in [1..r -> GrowthCoefficients],
                               c \in {1, 2}} : r \in 1..MaxOrder}

\* Dx^2 + 2*x*Dx, Dx^2 + 8*x*Dx, Dx^2 - x
Erf == <<<<>>, <<0, 2>>, <<1>>>>

Erf2 == <<<<>>, <<0, 8>>, <<1>>>>

Airy == <<<<0, -1>>, <<>>, <<1>>>>

InitGrowth ==
    /\ sing = {}
    /\ max_rad = Infinity
    /\ max_prec = 3
    /\ seed = 0
    /\ exactBalls = TRUE
    /\ made = Made(Ini(FALSE, {}), "ok")
    /\ polys = EmptyDict
    /\ inivecs = EmptyDict
    /\ call = NoCall
    /\ maxReq = EmptyDict
    /\ keys = EmptyDict
    /\ dk = Idle
    /\ eco = NoEco
    /\ job = NoJob
    /\ fcall = NoFcall

GrowthParameters ==
    /\ fcall = NoFcall
    /\ \E dop \in GrowthOperators :
           fcall' = Fcall("_growth_parameters", [dop |-> dop],
                          growth_parameters(dop))
    /\ UNCHANGED <<config, polys, inivecs, call, maxReq, keys, dk, eco, job>>

NextGrowth == GrowthParameters

SpecGrowth == InitGrowth /\ [][NextGrowth]_vars

\* ------------------------------------------ the values-of-approx spec ----
\* the points 5/4 and 9/4, given as exact numbers
ValuePoints ==
    {[mid |-> x, rad |-> 0, real |-> TRUE, bits |-> 0] : x \in {5, 9}}

\* DFiniteFunction(Dx^2 - (x - 1)*Dx + 1, [-1/4, 1/4], max_prec=3, max_rad=1)
InitValue ==
    /\ sing = {}
    /\ max_rad = 4
    /\ max_prec = 3
    /\ seed = 0
    /\ exactBalls = TRUE
    /\ made = Made(Ini(FALSE, {}), "ok")
    /\ polys = EmptyDict
    /\ inivecs = EmptyDict
    /\ call = NoCall
    /\ maxReq = EmptyDict
    /\ keys = EmptyDict
    /\ dk = Idle
    /\ eco = NoEco
    /\ job = NoJob
    /\ fcall = NoFcall

ApproxValue ==
    /\ \E pt \in ValuePoints, precArg \in 0..MaxReqPrec, w \in {0, 1} :
          /\ approx(pt, precArg)
          /\ fcall' = Fcall("approx", [pt |-> pt, prec |-> call'.prec],
                            approx_value(call', polys', w))
    /\ UNCHANGED <<config, dk, eco, job>>

NextValue == ApproxValue

SpecValue == InitValue /\ [][NextValue]_vars

\* ===================================================== properties ========
\* a call that took the cached path and found a disk
OnCachedPath(c) == c.kind \in {"hit", "compute"}

\* C1: the precision stored in _polys[c] never decreases, no entry is lost,
\* and after every call the precision stored for a center is the highest
\* precision of the successful cached-path requests made for that center.
C1_PolyPrecMonotone ==
    [][/\ \A c \in DOMAIN polys :
             c \in DOMAIN polys' /\ polys'[c].prec >= polys[c].prec
       /\ DOMAIN polys' = DOMAIN maxReq'
       /\ \A c \in DOMAIN polys' : polys'[c].prec = maxReq'[c]]_vars

\* a request below the cached precision has been served from the cache
C1_Witness ==
    /\ call.kind = "hit"
    /\ call.prec < polys[call.center].prec
    /\ maxReq[call.center] = polys[call.center].prec

\* C2: a cached-path call whose center is cached at a precision at least
\* the requested one invokes neither continuation nor on_interval and leaves
\* _polys and _inivecs as they were.
C2_HitFrame ==
    [][(/\ OnCachedPath(call')
        /\ call'.center \in DOMAIN polys
        /\ polys[call'.center].prec >= call'.prec)
       => /\ ~call'.cont /\ ~call'.pol
          /\ polys' = polys
          /\ inivecs' = inivecs]_vars

\* a hit for a point other than the one whose request filled the entry
C2_Witness ==
    /\ call.kind = "hit"
    /\ call.prec <= call.found
    /\ \E x \in DOMAIN keys : x /= call.pt.mid /\ call.center \in keys[x]

\* C3: a cached-path call that asks more precision than is cached for its
\* center recomputes (continuation is invoked), touches no other entry of
\* _polys, and on success stores the requested precision for its center.
C3_RecomputeFrame ==
    [][(/\ OnCachedPath(call')
        /\ call'.center \in DOMAIN polys
        /\ polys[call'.center].prec < call'.prec)
       => /\ call'.cont
          /\ DOMAIN polys' = DOMAIN polys
          /\ \A c \in DOMAIN polys \ {call'.center} : polys'[c] = polys[c]
          /\ call'.outcome = "ok" =>
                 /\ call'.pol
                 /\ polys'[call'.center].prec = call'.prec]_vars

\* an entry has been recomputed at a higher precision while another center
\* was cached
C3_Witness ==
    /\ call.kind = "compute"
    /\ call.outcome = "ok"
    /\ 0 < call.found
    /\ call.found < call.prec
    /\ DOMAIN polys \ {call.center} /= {}

Failed(c) == c.disk /\ c.outcome /= "ok"

\* C5 as stated: a failed cached-path call modifies neither cache.
C5_FailureAtomic ==
    [][Failed(call') => polys' = polys /\ inivecs' = inivecs]_vars

\* C5 amended: a failed cached-path call never modifies _polys; it leaves
\* _inivecs unchanged when no disk is found or continuation fails; when
\* on_interval fails, _inivecs holds the vectors continuation returned,
\* merged under the monotone-accuracy rule.
C5_FailureKeepsPolys ==
    [][Failed(call') =>
          /\ polys' = polys
          /\ call'.outcome /= "PolApproxError" => inivecs' = inivecs
          /\ call'.outcome = "PolApproxError" =>
                /\ call'.cont
                /\ {seed, call'.center} \subseteq DOMAIN inivecs'
                /\ \A v \in DOMAIN inivecs :
                       inivecs'[v] /= inivecs[v]
                           => inivecs'[v][1] > inivecs[v][1]]_vars

\* on_interval has failed for a center that has no polynomial, and the
\* vector of that center is in _inivecs
C5_Witness ==
    /\ call.outcome = "PolApproxError"
    /\ call.center \in DOMAIN inivecs
    /\ call.center \notin DOMAIN polys

\* C6: a call with prec >= max_prec or a point that is not real runs the
\* direct continuation along [seed, point], does not call the disk locator,
\* does not read _polys and leaves both caches unchanged.
C6_BypassFrame ==
    [][(call'.prec >= max_prec \/ ~call'.pt.real)
       => /\ call'.kind = "direct"
          /\ call'.numsol /\ ~call'.disk /\ ~call'.read
          /\ call'.path = <<seed, call'.pt.mid>>
          /\ ~call'.cont /\ ~call'.pol
          /\ polys' = polys
          /\ inivecs' = inivecs]_vars

\* a real point asked at exactly max_prec went the direct way while the
\* cache was filled
C6_Witness ==
    /\ call.kind = "direct"
    /\ call.pt.real
    /\ call.prec = max_prec
    /\ DOMAIN polys /= {}

OddM == {m \in (-(MaxCoord + 1))..(MaxCoord + 1) : m % 2 = 1}

\* c is an odd multiple of 2^e
OddMultiple(c, e) == c % Pow2(e + 1) = Pow2(e)

\* the closed disk of center m*2^e and radius 2^e contains x
InClosed(x, m, e) == Abs(x - m * Pow2(e)) <= Pow2(e)

\* x lies in [center - rad, center + rad) for that disk
InHalfOpen(x, m, e) == (m - 1) * Pow2(e) <= x /\ x < (m + 1) * Pow2(e)

\* 2*rad <= dist(center, nearest singularity) for that disk
Valid(m, e) == SqDist(m * Pow2(e)) >= (2 * Pow2(e)) * (2 * Pow2(e))

Returned == dk.pc = "done" /\ dk.result /= NoDisk

\* C8 as stated, for exact points and an evaluator without radius cap: the
\* disk returned is the largest disk of the packing that contains pt and has
\* 2*rad <= dist(center, sing).
C8_LargestValidDisk ==
    (dk.pc = "done" /\ dk.pt.rad = 0 /\ max_rad = Infinity /\ exactBalls)
    => /\ dk.result /= NoDisk
       /\ \A e \in 0..MaxExpo, m \in OddM :
              (InClosed(dk.pt.mid, m, e) /\ Valid(m, e))
                  => e <= dk.result.expo

\* C8 amended: the disk returned contains pt in its half-open interval
\* [center - rad, center + rad), passes the certified test, and no packing
\* disk of larger radius, up to 2^ceil(log2(min(dist(pt, sing), max_rad))),
\* whose half-open interval contains pt passes the certified test.
C8_LargestHalfOpenDisk ==
    Returned
    => /\ dk.result.center - Pow2(dk.result.expo) <= dk.pt.mid
       /\ dk.pt.mid < dk.result.center + Pow2(dk.result.expo)
       /\ CertDistGe(dk.result.center, 2 * Pow2(dk.result.expo))
       /\ \A e \in (dk.result.expo + 1)..MaxExpo, m \in OddM :
              (~BoundLe(dk.pt, Pow2(e - 1)) /\ InHalfOpen(dk.pt.mid, m, e))
                  => ~CertDistGe(m * Pow2(e), 2 * Pow2(e))

\* a disk has been returned for an exact point on its left boundary, after
\* larger candidates were rejected, while the packing disk that ends at the
\* point is larger and valid
C8_Witness ==
    /\ Returned
    /\ dk.pt.rad = 0
    /\ dk.rejected /= {}
    /\ \E e \in (dk.result.expo + 1)..MaxExpo, m \in OddM :
           /\ dk.pt.mid = (m + 1) * Pow2(e)
           /\ Valid(m, e)

\* C9: every candidate the loop tries, and so every center returned, is an
\* odd multiple of 2^expo and no odd multiple of 2^expo is nearer to the
\* point; the keys of _polys are odd multiples of the radius of their disk.
Nearest(c, e, x) == \A m \in OddM : Abs(x - c) <= Abs(x - m * Pow2(e))

C9_PackingInvariant ==
    /\ dk.pc \in {"check", "done"}
           => OddMultiple(dk.center, dk.expo)
              /\ Nearest(dk.center, dk.expo, dk.pt.mid)
    /\ \A r \in dk.rejected :
           OddMultiple(r[1], r[2]) /\ Nearest(r[1], r[2], dk.pt.mid)
    /\ Returned
           => dk.result = [center |-> dk.center, expo |-> dk.expo]
    /\ \A c \in DOMAIN polys : OddMultiple(c, polys[c].pol.expo)

\* a disk has been returned whose mantissa was made odd (the floor was even),
\* after a larger candidate was rejected
C9_Witness ==
    /\ Returned
    /\ dk.rejected /= {}
    /\ (dk.pt.mid \div Pow2(dk.expo)) % 2 = 0
    /\ dk.pt.mid < 0

\* C10: a disk returned has dist(center, sing) >= 2*rad, and every candidate
\* that was passed over failed that test and is not the one returned.
C10_SafetyMargin ==
    /\ Returned
           => /\ SqDist(dk.result.center)
                    >= (2 * Pow2(dk.result.expo)) * (2 * Pow2(dk.result.expo))
              /\ <<dk.result.center, dk.result.expo>> \notin dk.rejected
    /\ \A r \in dk.rejected :
           /\ SqDist(r[1]) <= (2 * Pow2(r[2])) * (2 * Pow2(r[2]))
           /\ ~exactBalls \/ SqDist(r[1]) < (2 * Pow2(r[2])) * (2 * Pow2(r[2]))

\* a disk has been returned whose center is at exactly twice its radius from
\* a singular point, after a larger candidate was rejected
C10_Witness ==
    /\ Returned
    /\ dk.rejected /= {}
    /\ SqDist(dk.result.center)
           = (2 * Pow2(dk.result.expo)) * (2 * Pow2(dk.result.expo))

\* C11: a disk returned by _disk contains every point of the ball of pt,
\* |x - center| <= rad, and _disk returns (None, None) exactly when some
\* point of the ball lies outside the candidate that passed the test.
C11_Containment ==
    dk.pc = "done"
    => LET ball == (dk.pt.mid - dk.pt.rad)..(dk.pt.mid + dk.pt.rad)
       IN  /\ dk.result /= NoDisk
                  => \A x \in ball :
                         Abs(x - dk.result.center) <= Pow2(dk.result.expo)
           /\ dk.result = NoDisk
                  <=> \E x \in ball : Abs(x - dk.center) > Pow2(dk.expo)

\* a disk has been returned for a ball of nonzero radius that reaches the
\* boundary of the disk
C11_Witness ==
    /\ Returned
    /\ dk.pt.rad > 0
    /\ Abs(dk.pt.mid - dk.result.center) + dk.pt.rad = Pow2(dk.result.expo)

\* the exact point at abscissa x
Exact(x) == [mid |-> x, rad |-> 0, real |-> TRUE, bits |-> 0]

\* C12: when _disk(pt) returns (c, r), _disk applied to the center c returns
\* the same disk (c, r).
C12_Idempotent ==
    Returned => disk(Exact(dk.result.center)) = dk.result

\* a disk has been returned, after larger candidates were rejected, for a
\* point other than its center, and the search for the center starts at a
\* larger exponent than the search for the point did
C12_Witness ==
    /\ Returned
    /\ dk.rejected /= {}
    /\ dk.pt.mid /= dk.result.center
    /\ start_expo(Exact(dk.result.center)) > dk.start

\* the points of the closed disk of center c and radius 2^e
Disk(c, e) == (c - Pow2(e))..(c + Pow2(e))

\* C13: at a fixed exponent e the disk _disk computes as candidate shares at
\* most one point with any other disk of the packing, and a point x that is
\* not a multiple of 2^e lies in exactly one disk of the packing, that
\* candidate; so it is for every candidate the loop has tried.
C13_PackingUnique ==
    dk.pc /= "idle"
    => /\ \A e \in 0..dk.start :
              /\ \A m \in OddM :
                     m * Pow2(e) /= candidate(dk.pt, e)
                     => Cardinality({x \in Disk(candidate(dk.pt, e), e) :
                                        InClosed(x, m, e)}) <= 1
              /\ dk.pt.mid % Pow2(e) /= 0
                     => \A m \in OddM :
                            InClosed(dk.pt.mid, m, e)
                                <=> m * Pow2(e) = candidate(dk.pt, e)
       /\ \A r \in dk.rejected \cup
                   (IF dk.pc = "loop" THEN {} ELSE {<<dk.center, dk.expo>>}) :
              dk.pt.mid % Pow2(r[2]) /= 0
                  => \A m \in OddM :
                         InClosed(dk.pt.mid, m, r[2]) <=> m * Pow2(r[2]) = r[1]

\* a disk has been returned for a point that is not a multiple of its radius
\* and whose mantissa was made odd, after a candidate was rejected at an
\* exponent where the point is not a multiple of 2^e either
C13_Witness ==
    /\ Returned
    /\ dk.pt.mid % Pow2(dk.expo) /= 0
    /\ (dk.pt.mid \div Pow2(dk.expo)) % 2 = 0
    /\ \E r \in dk.rejected : dk.pt.mid % Pow2(r[2]) /= 0

\* ------------------------------------------------------ economization
\* MaxGrid^MaxDeg times the value of p at the point j/MaxGrid of [-1, 1]
RECURSIVE EvalFrom(_, _, _)
EvalFrom(p, j, i) ==
    IF i > Degree(p) THEN 0
    ELSE Coef(p, i) * IPow(j, i) * IPow(MaxGrid, MaxDeg - i)
             + EvalFrom(p, j, i + 1)

EvalAt(p, j) == EvalFrom(p, j, 0)

\* the sum of the moduli of the coefficients of p
RECURSIVE L1From(_, _)
L1From(p, i) == IF i > Degree(p) THEN 0 ELSE Abs(Coef(p, i)) + L1From(p, i + 1)

L1(p) == L1From(p, 0)

\* the value of pol at x lies in the value of the result at x
Encloses(c, j) ==
    Abs(EvalAt(c.pol, j) - EvalAt(c.out.pol, j))
        <= c.out.rad * IPow(MaxGrid, MaxDeg)

\* C14: at every point x of [-1, 1] the value of pol lies in the value of
\* general_economization(chebyshev_polynomials, pol, eps), the distance of
\* pol(x) to the midpoint polynomial being at most the radius added to the
\* constant term.
C14_ChebyshevSound ==
    (eco.fn = "chebyshev_economization" /\ eco.out.raised = "none")
    => \A j \in (-MaxGrid)..MaxGrid : Encloses(eco, j)

\* C15: the polynomial kept by taylor_economization is pol with some
\* coefficients zeroed, the moduli of the zeroed coefficients add up to at
\* most the radius delta_bound added to the constant term, which is a complex
\* ball, so that |pol(z) - kept(z)| <= delta_bound for every |z| <= 1.
C15_TaylorSound ==
    (eco.fn = "taylor_economization" /\ eco.out.raised = "none")
    => /\ \A i \in 0..Degree(eco.pol) :
              Coef(eco.out.pol, i) \in {Coef(eco.pol, i), 0}
       /\ Degree(eco.out.pol) <= Degree(eco.pol)
       /\ L1(PolSub(eco.pol, eco.out.pol)) <= eco.out.rad
       /\ eco.out.field = "complex"
       /\ \A j \in (-MaxGrid)..MaxGrid : Encloses(eco, j)

\* taylor_economization has dropped a nonzero term, and a zero one, of lower
\* degree than a term it kept
C15_Witness ==
    /\ eco.fn = "taylor_economization"
    /\ eco.out.raised = "none"
    /\ \E i \in eco.out.dropped, k \in eco.out.dropped, j \in 0..MaxDeg :
           /\ i < j /\ k < j
           /\ Coef(eco.pol, i) /= 0
           /\ Coef(eco.pol, k) = 0
           /\ Coef(eco.out.pol, j) /= 0

\* a call of an economization function that has returned
Economizes(c) ==
    /\ c.fn \in {"taylor_economization", "chebyshev_economization"}
    /\ c.out.raised = "none"

\* the leading coefficient of E[k] for the function called: x^k or T[k]
EcoLeading(c, k) ==
    IF c.fn = "taylor_economization" THEN 1
    ELSE LeadingCoefficient(chebyshev_polynomials(k + 1)[k + 1])

\* C16: terms are dropped only while the running bound stays strictly below
\* eps, the dropped degrees are a contiguous run of the highest degrees, and
\* a term that was retained is returned as it was when it was tested, in
\* taylor_economization and in general_economization alike.
C16_StopRule ==
    Economizes(eco)
    => /\ eco.out.dropped /= {} => eco.out.rad < eco.eps
       /\ \A k \in eco.out.dropped :
              \A j \in k..Degree(eco.pol) : j \in eco.out.dropped
       /\ \A k \in 0..Degree(eco.pol) :
              k \notin eco.out.dropped
                  => Coef(eco.out.pol, k) = eco.out.c[k + 1] * EcoLeading(eco, k)

\* the sum of the moduli |c[k]| over the degrees k >= i that are absent from
\* the polynomial returned
RECURSIVE AbsentFrom(_, _)
AbsentFrom(c, i) ==
    IF i > Degree(c.pol) THEN 0
    ELSE (IF Coef(c.out.pol, i) = 0 THEN Abs(c.out.c[i + 1]) ELSE 0)
             + AbsentFrom(c, i + 1)

\* C17: the radius added to the constant coefficient is the sum of the moduli
\* of the coefficients that were dropped from the polynomial, each divided by
\* the leading coefficient of its E[k], and it is strictly less than eps;
\* when no term can be dropped the radius is 0 and the polynomial is returned
\* unchanged.
C17_ErrorBound ==
    Economizes(eco)
    => /\ eco.out.rad = AbsentFrom(eco, 0)
       /\ eco.out.dropped /= {} => eco.out.rad < eco.eps
       /\ eco.out.dropped = {} => eco.out.rad = 0 /\ eco.out.pol = eco.pol

\* ---------------------------------------------------------------- doit
\* C18: continuation is given eps/2, summation and economization together
\* are given the other half, and the three tolerances passed by doit add up
\* to at most eps.
C18_BudgetSplit ==
    job.outcome = "ok"
    => /\ job.passed["continuation"] = job.eps \div 2
       /\ job.passed["summation"] + job.passed["economization"]
              <= job.eps - job.passed["continuation"]
       /\ job.passed["continuation"] + job.passed["summation"]
              + job.passed["economization"] <= job.eps

\* -------------------------------------------------------- constructor
\* C19: a constructor call whose ini is a dict with no key or with several
\* keys ends in NotImplementedError and leaves no evaluator, so that approx
\* is never called; a vector is taken as the seed at point 0 and a dict with
\* one key as the seed at that key; every path handed to continuation
\* starts at that seed, which never changes and is a vertex of _inivecs as
\* soon as a continuation has run.
C19_SeedConfiguration ==
    [][/\ made'.outcome = "NotImplementedError"
              => /\ made'.ini.dict
                 /\ Cardinality(made'.ini.keys) /= 1
                 /\ seed' = NoSeed
                 /\ polys' = EmptyDict /\ inivecs' = EmptyDict
       /\ (made'.ini.dict /\ Cardinality(made'.ini.keys) /= 1)
              => made'.outcome = "NotImplementedError"
       /\ (made'.outcome = "ok" /\ ~made'.ini.dict) => seed' = 0
       /\ (made'.outcome = "ok" /\ made'.ini.dict) => made'.ini.keys = {seed'}
       /\ made.outcome = "ok" => made' = made /\ seed' = seed
       /\ made'.outcome /= "ok" => call' = NoCall
       /\ call'.path /= <<>> => call'.path[1] = seed'
       /\ inivecs' /= EmptyDict => seed' \in DOMAIN inivecs']_vars

\* an evaluator constructed from a dict with the single key 2 has run a
\* continuation along a path that starts at 2
C19_Witness ==
    /\ made.outcome = "ok"
    /\ made.ini.dict
    /\ seed = 8
    /\ call.kind = "compute"
    /\ call.path[1] = 8
    /\ 8 \in DOMAIN inivecs

\* C20: a call of approx for a real point, at a precision below max_prec,
\* for which the disk locator returns (None, None) ends in
\* NotImplementedError, runs no continuation, no numerical_solution and no
\* polynomial computation, does not read _polys, and leaves _polys and
\* _inivecs unchanged.
C20_UnboundedPoint ==
    [][(/\ call'.kind /= "none"
        /\ call'.pt.real
        /\ call'.prec < max_prec
        /\ disk(call'.pt) = NoDisk)
       => /\ call'.outcome = "NotImplementedError"
          /\ ~call'.cont /\ ~call'.numsol /\ ~call'.pol /\ ~call'.read
          /\ call'.path = <<>>
          /\ polys' = polys
          /\ inivecs' = inivecs]_vars

\* approx has failed on a ball that no disk contains, while both caches hold
\* entries
C20_Witness ==
    /\ call.kind = "nodisk"
    /\ call.outcome = "NotImplementedError"
    /\ call.pt.rad > 0
    /\ disk(call.pt) = NoDisk
    /\ polys /= EmptyDict
    /\ inivecs /= EmptyDict

\* -------------------------------------------------------- on_interval
\* the last element of the path on_interval was given
LastOf(path) == path[Len(path)]

\* C21: with rad omitted and a path that ends with a pair [left, right],
\* doit gets the path with the midpoint in place of the pair and the radius
\* (right - left)/2; with rad omitted and a path that ends with a point the
\* call fails with TypeError 'missing radius' and doit is not called; with rad
\* given doit gets the path as it is, and a final pair is rejected as an
\* unexpected point value; the caller's list is never modified.
C21_IntervalInference ==
    fcall.fn = "on_interval" /\ fcall.args.path /= <<>>
    => LET path == fcall.args.path
           rad == fcall.args.rad
           last == LastOf(path)
       IN  /\ fcall.out.path = path
           /\ (rad = NoRad /\ last.pair)
                  => /\ Len(job.path) = Len(path)
                     /\ \A i \in 1..(Len(path) - 1) : job.path[i] = path[i]
                     /\ ~LastOf(job.path).pair
                     /\ 2 * LastOf(job.path).left = last.left + last.right
                     /\ 2 * job.rad = last.right - last.left
                     /\ job.economization = "chebyshev_economization"
                     /\ fcall.out.outcome = job.outcome
                     /\ fcall.out.outcome /= "TypeError: missing radius"
           /\ (rad = NoRad /\ ~last.pair)
                  => /\ fcall.out.outcome = "TypeError: missing radius"
                     /\ job = NoJob
           /\ rad /= NoRad
                  => /\ job.path = path
                     /\ job.rad = rad
                     /\ fcall.out.outcome = job.outcome
                     /\ last.pair => job.outcome
                            = "TypeError: unexpected value for point"

\* on_interval has returned a polynomial for a path that ends with the pair
\* [2, 4], with the radius inferred
C21_Witness ==
    /\ fcall.fn = "on_interval"
    /\ fcall.args.rad = NoRad
    /\ fcall.args.path = <<Plain(1), Pair(2, 4)>>
    /\ fcall.out.outcome = "ok"
    /\ job.path = <<Plain(1), Plain(3)>>
    /\ job.rad = 1

\* --------------------------------------------------- _growth_parameters
\* the point p of the operator lies on the line of slope s through b
OnEdge(p, b, s) == (p.i - b.i) * s[2] = s[1] * (p.h - b.h)

\* the points of the operator, as a set
PointSet(dop) == {points(dop)[n] : n \in 1..Len(points(dop))}

\* C22: when _growth_parameters returns, the base point is a nonzero
\* coefficient of least h = degree - order, kappa = -slope where slope is the
\* greatest (i - i0)/(h - h0) over the points with h > h0, the edge equation
\* has the coefficient c at degree i for exactly the points (h, i, c) on the
\* line i = i0 + slope*(h - h0), and kappa is 1/2 for Dx^2 + 2x*Dx and
\* Dx^2 + 8x*Dx and 2/3 for Dx^2 - x.
C22_GrowthExponent ==
    fcall.fn = "_growth_parameters" /\ fcall.out.raised = "none"
    => LET dop == fcall.args.dop
           pts == PointSet(dop)
           b == fcall.out.base
           s == <<-fcall.out.kappa[1], fcall.out.kappa[2]>>
           far == {p \in pts : p.h > b.h}
       IN  /\ b \in pts
           /\ \A p \in pts : b.h <= p.h
           /\ s[2] > 0
           /\ \A p \in far : (p.i - b.i) * s[2] <= s[1] * (p.h - b.h)
           /\ \E p \in far : OnEdge(p, b, s)
           /\ \A p \in pts : OnEdge(p, b, s)
                  => p.i \in DOMAIN fcall.out.eqn /\ fcall.out.eqn[p.i] = p.c
           /\ \A i \in DOMAIN fcall.out.eqn :
                  \E p \in pts : OnEdge(p, b, s) /\ p.i = i
           /\ dop \in {Erf, Erf2} => fcall.out.kappa = <<1, 2>>
           /\ dop = Airy => fcall.out.kappa = <<2, 3>>

\* _growth_parameters has returned kappa = 2/3 for the Airy operator, with
\* the edge equation 1*alpha^2 - 1
C22_Witness ==
    /\ fcall.fn = "_growth_parameters"
    /\ fcall.args.dop = Airy
    /\ fcall.out.raised = "none"
    /\ fcall.out.kappa = <<2, 3>>
    /\ fcall.out.eqn = (0 :> -1) @@ (2 :> 1)

\* ------------------------------------------------------ values of approx
\* C23: the ball returned by approx(z, prec) contains the value of the
\* function at z, whether the polynomial is read from _polys, computed by
\* the call, or the value comes from numerical_solution.
C23_Enclosure ==
    (fcall.fn = "approx" /\ fcall.out.kind \in {"hit", "compute", "direct"})
    => fcall.out.lo <= fcall.out.truth /\ fcall.out.truth <= fcall.out.hi

\* ------------------------------------------------ chebyshev_polynomials
\* C24: chebyshev_polynomials(ring, n) returns n polynomials, none for
\* n = 0 and [1] for n = 1, with T[0] = 1, T[1] = x and
\* T[k+1] = 2x*T[k] - T[k-1]; T[k] has degree k, so that its leading
\* coefficient is not zero, and |T[k](x)| <= 1 at x = -1, 0 and 1.
C24_ChebyshevBasis ==
    fcall.fn = "chebyshev_polynomials"
    => LET n == fcall.args.n
           T == fcall.out
       IN  /\ Len(T) = n
           /\ n >= 1 => T[1] = <<1>>
           /\ n >= 2 => T[2] = <<0, 1>>
           /\ \A k \in 1..(n - 2) :
                  T[k + 2] = PolSub(PolScale(2, PolShift(T[k + 1])), T[k])
           /\ \A k \in 0..(n - 1) :
                  /\ Degree(T[k + 1]) = k
                  /\ LeadingCoefficient(T[k + 1]) /= 0
                  /\ \A j \in {-MaxGrid, 0, MaxGrid} :
                         Abs(EvalAt(T[k + 1], j)) <= IPow(MaxGrid, MaxDeg)

\* chebyshev_polynomials has returned T[0], T[1] and T[2] = 2x^2 - 1 at least
C24_Witness ==
    /\ fcall.fn = "chebyshev_polynomials"
    /\ fcall.args.n >= 3
    /\ Len(fcall.out) = fcall.args.n
    /\ fcall.out[3] = <<-1, 0, 2>>

\* --------------------------------------------------------- radius cap
\* C25: the radius of a disk returned by _disk is at most self.max_rad, the
\* lesser of the max_rad argument and of the growth cap, and at most the
\* distance of pt to the nearest singular point.
C25_RadiusCap ==
    Returned
    => /\ Pow2(dk.result.expo) <= max_rad
       /\ Pow2(dk.result.expo) * Pow2(dk.result.expo) <= SqDist(dk.pt.mid)

\* ------------------------------------------------ termination of _disk
\* a turn of the loop that does not leave it lowers the exponent by one
TurnDecrements ==
    (dk.pc = "loop" /\ dk'.pc = "loop") => dk'.expo = dk.expo - 1

\* no candidate was passed over at an exponent e with 3*2^e <= dist(pt, sing)
PassedOverAbove ==
    \A r \in dk.rejected :
        9 * Pow2(r[2]) * Pow2(r[2]) > SqDist(dk.pt.mid)

\* no candidate was passed over at an exponent e with 3*2^e < dist(pt, sing),
\* nor, when the enclosures of the distances are exact, with 3*2^e = dist
PassedOverStrict ==
    \A r \in dk.rejected :
        /\ 9 * Pow2(r[2]) * Pow2(r[2]) >= SqDist(dk.pt.mid)
        /\ exactBalls => 9 * Pow2(r[2]) * Pow2(r[2]) > SqDist(dk.pt.mid)

\* C26 as stated: the loop of _disk ends with an accepted candidate, every
\* turn that passes over a candidate lowers the exponent by one, and the
\* candidate is accepted at the latest once 3*2^e <= dist(pt, sing).
C26_Termination ==
    /\ (dk.pc = "loop") ~> (dk.pc = "check")
    /\ [][TurnDecrements]_vars
    /\ []PassedOverAbove

\* C26 amended: the loop ends with an accepted candidate, every turn that
\* passes over a candidate lowers the exponent by one, and the candidate is
\* accepted at the latest once 3*2^e < dist(pt, sing), or once
\* 3*2^e <= dist(pt, sing) when the enclosures of the distances are exact.
C26_TerminationStrict ==
    /\ (dk.pc = "loop") ~> (dk.pc = "check")
    /\ [][TurnDecrements]_vars
    /\ []PassedOverStrict

\* the loop has ended with an accepted candidate after it passed over a
\* candidate at the exponent just above the first e with 3*2^e <= dist
C26_Witness ==
    /\ dk.pc = "check"
    /\ dk.rejected /= {}
    /\ 9 * Pow2(dk.expo) * Pow2(dk.expo) <= SqDist(dk.pt.mid)
    /\ 9 * Pow2(dk.expo + 1) * Pow2(dk.expo + 1) > SqDist(dk.pt.mid)
    /\ <<candidate(dk.pt, dk.expo + 1), dk.expo + 1>> \in dk.rejected

\* ------------------------------------------- Taylor as the monomial case
\* C27: general_economization with E[k] = x^k and taylor_economization
\* return, for the same nonzero pol and the same eps, the same coefficients,
\* drop the same degrees and add the same radius to the constant term.
C27_TaylorIsMonomial ==
    (eco.fn = "general_economization" /\ eco.pol /= <<>>)
    => LET t == taylor_economization(eco.pol, eco.eps)
       IN  /\ t.raised = eco.out.raised
           /\ t.pol = eco.out.pol
           /\ t.dropped = eco.out.dropped
           /\ t.rad = eco.out.rad

\* ------------------------------------------------- keys of the cache
\* C28: a disk that _disk returns for any point of the evaluator with the
\* center of the disk just returned has its radius too, and the point lies
\* in the disk just returned: the polynomial stored under the center is
\* evaluated only inside the disk it was computed for.
C28_KeySound ==
    Returned
    => \A pt \in DiskPoints :
           (Ordinary(pt) /\ disk(pt) /= NoDisk
                /\ disk(pt).center = dk.result.center)
               => /\ disk(pt).expo = dk.result.expo
                  /\ \A x \in (pt.mid - pt.rad)..(pt.mid + pt.rad) :
                         Abs(x - dk.result.center) <= Pow2(dk.result.expo)

\* a disk has been returned whose center is also the center of the disk of
\* another point, which started its search at another exponent
C28_Witness ==
    /\ Returned
    /\ \E pt \in DiskPoints :
           /\ Ordinary(pt)
           /\ pt.mid /= dk.pt.mid
           /\ disk(pt) = dk.result
           /\ start_expo(pt) /= dk.start

\* ------------------------------------------------ assertions of _disk
\* C29: approx calls _disk on real points only, no call of approx ends in
\* the AssertionError of _disk, and when _disk gives up the midpoint of the
\* point is within rad of the candidate center the search stopped at.
C29_AssertionsHold ==
    /\ call.disk => call.pt.real
    /\ call.outcome /= "AssertionError"
    /\ call.kind = "nodisk"
           => LET e == search(call.pt, start_expo(call.pt))
              IN  Abs(call.pt.mid - candidate(call.pt, e)) <= Pow2(e)

\* approx has got (None, None) from _disk for a real ball whose midpoint is
\* on the boundary of the candidate disk
C29_Witness ==
    /\ call.kind = "nodisk"
    /\ call.outcome = "NotImplementedError"
    /\ call.pt.real
    /\ call.pt.rad > 0
    /\ LET e == search(call.pt, start_expo(call.pt))
       IN  Abs(call.pt.mid - candidate(call.pt, e)) = Pow2(e)

\* ------------------------------------------------ failed recomputation
\* the call c asked more than the precision stored for its center and failed
\* in continuation or in on_interval
FailedRecompute(c) ==
    /\ c.kind = "compute"
    /\ c.found > 0
    /\ c.outcome \in {"ContinuationError", "PolApproxError"}

\* C30: a recomputation that fails leaves the entry of its center in _polys
\* as it was, polynomial and precision; no call removes an entry of _polys;
\* and a call for a center whose stored precision is at least the one asked
\* is answered from the stored polynomial, without continuation or
\* on_interval, whatever failed before.
C30_FailedRecomputeKeeps ==
    [][/\ FailedRecompute(call')
           => /\ call'.center \in DOMAIN polys
              /\ call'.prec > polys[call'.center].prec
              /\ call'.center \in DOMAIN polys'
              /\ polys'[call'.center] = polys[call'.center]
       /\ DOMAIN polys \subseteq DOMAIN polys'
       /\ (/\ OnCachedPath(call')
           /\ call'.center \in DOMAIN polys
           /\ call'.prec <= polys[call'.center].prec)
           => /\ call'.kind = "hit"
              /\ call'.outcome = "ok"
              /\ ~call'.cont /\ ~call'.pol
              /\ polys' = polys]_vars

\* on_interval has failed at a precision above the one stored for the center,
\* and the entry stored earlier is still there
C30_Witness ==
    /\ FailedRecompute(call)
    /\ call.outcome = "PolApproxError"
    /\ call.center \in DOMAIN polys
    /\ polys[call.center].prec = call.found
    /\ call.found < call.prec
    /\ maxReq[call.center] = call.found
====
